---- MODULE Spec2Model ----
(***************************************************************************)
(* The linkage checker of cargo-dist (cargo-dist/src/linkage.rs):          *)
(* determine_linkage inspects one binary and classifies every library it   *)
(* links to; fetch_linkage runs it over targets, artifacts and binaries.   *)
(*                                                                         *)
(* A string is a sequence of tokens.  The token alphabet is prefix-free    *)
(* (no token's text is a prefix of another's), so str::starts_with is the  *)
(* prefix relation on token sequences, and "/" is a token of its own, so   *)
(* splitting at '/' and Path::starts_with (component-wise) are computed    *)
(* from the same representation.  The tokens "sp", "tab" and "nl" stand    *)
(* for the space, the tab and the newline.                                 *)
(***************************************************************************)
EXTENDS Naturals, Sequences, FiniteSets, TLC

VARIABLES
    hostOS,      \* std::env::consts::OS
    fs,          \* the filesystem as fs::canonicalize sees it
    caller,      \* "direct" (a call of the pub fn) or "fetch_linkage"
    targets,     \* fetch_linkage: the requested target triples
    artifacts,   \* fetch_linkage: the artifacts
    ti, ai, bi,  \* fetch_linkage: position of the three nested loops
    reports,     \* fetch_linkage: `reports`
    batchRet,    \* fetch_linkage: what it returned (<<>> while running)
    pc,          \* where control is
    callPath,    \* determine_linkage: `path` ([dir, file])
    callTarget,  \* determine_linkage: `target`
    libraries,   \* determine_linkage: `libraries`, not yet classified part
    raw,         \* determine_linkage: `libraries` as the inspector returned it
    linkage,     \* determine_linkage: the local `linkage`
    ret,         \* determine_linkage: what it returned (<<>> while running)
    spawned,     \* external commands run since the call began
    reads,       \* files read since the call began
    absent,      \* the binaries of the dist directory that do not exist
    lddOut,      \* what the run of ldd of this call did (None before it)
    receipts     \* the install receipts this call met: [path, receipt]

vars == <<hostOS, fs, caller, targets, artifacts, ti, ai, bi, reports, batchRet,
          pc, callPath, callTarget, libraries, raw, linkage, ret, spawned, reads,
          absent, lddOut, receipts>>

\* ---------------------------------------------------------------- bounds
MaxLibs == 2      \* libraries an inspected binary links to
MaxLines == 2     \* lines of ldd output
MaxTargets == 2   \* requested targets of one fetch_linkage batch

\* ---------------------------------------------------------------- strings
\* str::starts_with
StartsWith(s, p) == Len(s) >= Len(p) /\ SubSeq(s, 1, Len(p)) = p

\* index of the first occurrence of token sep in s, 0 when there is none
FirstIndex(s, sep) ==
    IF \E i \in 1..Len(s) : s[i] = sep
    THEN CHOOSE i \in 1..Len(s) : s[i] = sep /\ \A j \in 1..(i - 1) : s[j] # sep
    ELSE 0

\* str::split(sep): the pieces between occurrences of sep, empty ones included
RECURSIVE Split(_, _)
Split(s, sep) ==
    LET i == FirstIndex(s, sep)
    IN  IF i = 0 THEN <<s>>
        ELSE <<SubSeq(s, 1, i - 1)>> \o Split(SubSeq(s, i + 1, Len(s)), sep)

\* str::strip_prefix(p).unwrap()
StripPrefix(s, p) == SubSeq(s, Len(p) + 1, Len(s))

\* Path::components of an absolute or relative path
PathComponents(s) ==
    (IF StartsWith(s, <<"/">>) THEN << <<"/">> >> ELSE <<>>)
        \o SelectSeq(Split(s, "/"), LAMBDA c : c # <<>>)

\* Path::starts_with: whole components
PathStartsWith(p, base) == StartsWith(PathComponents(p), PathComponents(base))

\* Option<String>
None == <<>>
Some(x) == <<x>>

\* Result
Ok(v) == [ok |-> TRUE, val |-> <<v>>, err |-> ""]
Err(e) == [ok |-> FALSE, val |-> <<>>, err |-> e]

\* ---------------------------------------------------------------- paths
\* The path prefixes the code names (linkage.rs:180-182, 391-402).
OPT_HOMEBREW == <<"/", "opt", "/", "homebrew">>
USR_LIB == <<"/", "usr", "/", "lib">>
LIB == <<"/", "lib">>
SYSTEM_FRAMEWORKS == <<"/", "System", "/", "Library", "/", "Frameworks">>
LIBRARY_FRAMEWORKS == <<"/", "Library", "/", "Frameworks">>
USR_LOCAL == <<"/", "usr", "/", "local">>
USR_LOCAL_CELLAR == <<"/", "usr", "/", "local", "/", "Cellar">>
OPT_HOMEBREW_OPT == <<"/", "opt", "/", "homebrew", "/", "opt", "/">>
USR_LOCAL_OPT == <<"/", "usr", "/", "local", "/", "opt", "/">>

\* Library paths that binaries of the model link to.
P_openssl == OPT_HOMEBREW_OPT \o <<"openssl@3", "/", "lib", "/", "lib", "ssl.3.dylib">>
P_brewlib == OPT_HOMEBREW \o <<"/", "lib", "/", "lib", "foo", ".dylib">>
P_libSystem == USR_LIB \o <<"/", "lib", "System", ".B.dylib">>
P_lib64 == USR_LIB \o <<"64", "/", "lib", "c.so.6">>
P_libm == LIB \o <<"/", "lib", "m.so.6">>
P_usrlibm == USR_LIB \o <<"/", "lib", "m.so.6">>
P_foundation == SYSTEM_FRAMEWORKS \o <<"/", "Foundation">>
P_userfw == LIBRARY_FRAMEWORKS \o <<"/", "Sparkle">>
P_zlibopt == USR_LOCAL_OPT \o <<"zlib", "/", "lib", "/", "lib", "z.1.dylib">>
P_zlibcellar == USR_LOCAL_CELLAR \o <<"/", "zlib", "/", "lib", "/", "lib", "z.1.dylib">>
P_mylib == USR_LOCAL \o <<"/", "mylib.so">>
P_cellarfoo == USR_LOCAL_CELLAR \o <<"foo", "/", "x.dylib">>
P_gone == USR_LOCAL \o <<"/", "lib", "/", "lib", "gone.dylib">>
P_kernel32 == <<"KERNEL32.dll">>

RawPaths ==
    { P_openssl, P_brewlib, P_libSystem, P_lib64, P_foundation, P_userfw,
      P_zlibopt, P_zlibcellar, P_mylib, P_cellarfoo, P_gone, P_kernel32 }

\* Module names that PE files of the model import.
P_vcruntime == <<"VCRUNTIME140.dll">>
PeImports == { P_kernel32, P_vcruntime, P_mylib }

\* Sequences over S of length at most n
SeqsUpTo(S, n) == UNION { [1..m -> S] : m \in 0..n }

\* ---------------------------------------------------------------- filesystem
\* fs::canonicalize on filesystem fsys: Err when the path does not resolve,
\* else the path with its symlinks resolved.  fsys maps the paths that are
\* symlinks (or lie below one) to what they resolve to, and names the paths
\* that do not exist; every other path is its own canonical form.
canonicalize(fsys, p) ==
    IF p \in fsys.missing \/ p = <<>> THEN Err("Io")
    ELSE IF p \in DOMAIN fsys.links THEN Ok(fsys.links[p])
    ELSE Ok(p)

\* A usr-merged host with Intel Homebrew: /lib is a symlink to /usr/lib and
\* /usr/local/opt/zlib one into the Cellar.
FsBrew ==
    [ links |-> (P_libm :> P_usrlibm) @@ (P_zlibopt :> P_zlibcellar),
      missing |-> { P_gone, <<"not">> } ]

\* A host without Homebrew: /usr/local/opt/zlib is a hand-made directory and
\* /usr/local/mylib.so does not exist.
FsPlain ==
    [ links |-> (P_libm :> P_libm),
      missing |-> { P_mylib, <<"not">> } ]

FileSystems == { FsBrew, FsPlain }

\* ---------------------------------------------------------------- Library, Linkage
\* cargo_dist_schema::Library
Library(path, source) == [path |-> path, source |-> source]

\* SortedSet<Library>::insert; two Library values with the same path are the
\* same dependency, and insert keeps the element the set already holds.
Insert(set, lib) ==
    IF \E l \in set : l.path = lib.path THEN set ELSE set \cup {lib}

Buckets == {"system", "homebrew", "public_unmanaged", "frameworks", "other"}

\* The Linkage determine_linkage starts from (linkage.rs:381-389)
EmptyLinkage(path, target) ==
    [ binary |-> Some(path.file), target |-> Some(target),
      system |-> {}, homebrew |-> {}, public_unmanaged |-> {},
      frameworks |-> {}, other |-> {} ]

\* (mutant) an `if` that is not chained with `else`: the library is
\* inserted into its bucket and falls through to `other` as well
InsertInto_fallthrough(lk, bucket, lib) ==
    [lk EXCEPT ![bucket] = Insert(lk[bucket], lib), !["other"] = Insert(lk["other"], lib)]

\* linkage.<bucket>.insert(lib)
InsertInto(lk, bucket, lib) == [lk EXCEPT ![bucket] = Insert(lk[bucket], lib)]

\* ---------------------------------------------------------------- Homebrew
HOMEBREW_CORE == <<"homebrew", "/", "core">>
OTHER_TAP == <<"hashicorp", "/", "tap">>

\* What library_from_homebrew can find at <prefix>/<package>/INSTALL_RECEIPT.json:
\* nothing; a file that cannot be loaded or is not JSON; JSON whose
\* source.tap is no string; JSON with a source tap.
Receipts ==
    { [exists |-> FALSE, json |-> FALSE, tap |-> None],
      [exists |-> TRUE, json |-> FALSE, tap |-> None],
      [exists |-> TRUE, json |-> TRUE, tap |-> None],
      [exists |-> TRUE, json |-> TRUE, tap |-> Some(HOMEBREW_CORE)],
      [exists |-> TRUE, json |-> TRUE, tap |-> Some(OTHER_TAP)] }

\* the prefix library_from_homebrew recognises, None for any other path
brew_prefix(library) ==
    IF StartsWith(library, OPT_HOMEBREW_OPT) THEN Some(OPT_HOMEBREW_OPT)
    ELSE IF StartsWith(library, USR_LOCAL_OPT) THEN Some(USR_LOCAL_OPT)
    ELSE None

\* (mutant) the tap is prefixed whatever it is, homebrew/core included
library_from_homebrew_anytap(library, receipt) ==
    IF brew_prefix(library) # None
    THEN LET package == Head(Split(StripPrefix(library, brew_prefix(library)[1]), "/"))
         IN  Library(library,
                     Some(IF receipt.exists /\ receipt.json /\ receipt.tap # None
                          THEN receipt.tap[1] \o <<"/">> \o package
                          ELSE package))
    ELSE Library(library, None)

\* library_from_homebrew(library), when the receipt of its package is `receipt`
library_from_homebrew(library, receipt) ==
    IF brew_prefix(library) # None
    THEN LET prefix == brew_prefix(library)[1]
             stripped == StripPrefix(library, prefix)
             package == Head(Split(stripped, "/"))
             named == IF /\ receipt.exists
                         /\ receipt.json
                         /\ receipt.tap # None
                         /\ receipt.tap[1] # HOMEBREW_CORE
                      THEN receipt.tap[1] \o <<"/">> \o package
                      ELSE package
         IN  Library(library, Some(named))
    ELSE Library(library, None)

\* ---------------------------------------------------------------- dpkg
\* What `dpkg --search <library>` can do: not start, exit with a failure
\* status (Cmd checks the status unless told not to), or exit successfully
\* with stdout empty, naming a package, holding no colon, or not UTF-8.
DpkgOutcomes(library) ==
    { [run |-> "spawn_failed", utf8 |-> TRUE, stdout |-> <<>>],
      [run |-> "status_failed", utf8 |-> TRUE, stdout |-> <<>>],
      [run |-> "ok", utf8 |-> TRUE, stdout |-> <<>>],
      [run |-> "ok", utf8 |-> TRUE,
       stdout |-> <<"lib", "c6", ":", "amd64", ":", "sp">> \o library \o <<"nl">>],
      [run |-> "ok", utf8 |-> TRUE, stdout |-> <<"dpkg-query", "sp", "warning", "nl">>],
      [run |-> "ok", utf8 |-> FALSE, stdout |-> <<"\\xff">>] }

\* library_from_apt(library) on host os, when dpkg does dp
library_from_apt(library, os, dp) ==
    IF os # "linux" THEN Ok(Library(library, None))
    ELSE IF dp.run = "ok"
    THEN IF ~dp.utf8 THEN Err("FromUtf8")
         ELSE LET package == Head(Split(dp.stdout, ":"))
              IN  Ok(Library(library, IF package = <<>> THEN None ELSE Some(package)))
    ELSE Ok(Library(library, None))

\* whether library_from_apt runs dpkg
apt_spawns(os) == IF os # "linux" THEN {} ELSE {"dpkg"}

\* ---------------------------------------------------------------- classification
\* (mutant) the Cellar test made on the text of the canonical path, as the
\* other tests are, instead of on its components
bucket_of_textual_cellar(library, fsys) ==
    IF StartsWith(library, OPT_HOMEBREW) THEN Ok("homebrew")
    ELSE IF StartsWith(library, USR_LIB) \/ StartsWith(library, LIB) THEN Ok("system")
    ELSE IF \/ StartsWith(library, SYSTEM_FRAMEWORKS)
            \/ StartsWith(library, LIBRARY_FRAMEWORKS)
    THEN Ok("frameworks")
    ELSE IF StartsWith(library, USR_LOCAL)
    THEN LET real == canonicalize(fsys, library)
         IN  IF ~real.ok THEN Err(real.err)
             ELSE IF StartsWith(real.val[1], USR_LOCAL_CELLAR) THEN Ok("homebrew")
             ELSE Ok("public_unmanaged")
    ELSE Ok("other")

\* The branch of the if-chain of determine_linkage (linkage.rs:391-413) that
\* `library` takes: the bucket it is inserted into, or the error of
\* canonicalize in the /usr/local branch.
bucket_of(library, fsys) ==
    IF StartsWith(library, OPT_HOMEBREW) THEN Ok("homebrew")
    ELSE IF StartsWith(library, USR_LIB) \/ StartsWith(library, LIB) THEN Ok("system")
    ELSE IF \/ StartsWith(library, SYSTEM_FRAMEWORKS)
            \/ StartsWith(library, LIBRARY_FRAMEWORKS)
    THEN Ok("frameworks")
    ELSE IF StartsWith(library, USR_LOCAL)
    THEN LET real == canonicalize(fsys, library)
         IN  IF ~real.ok THEN Err(real.err)
             ELSE IF PathStartsWith(real.val[1], USR_LOCAL_CELLAR) THEN Ok("homebrew")
             ELSE Ok("public_unmanaged")
    ELSE Ok("other")

\* The Library that the branch of bucket b builds for `library`
library_for(b, library, os, dp, receipt) ==
    CASE b = "homebrew" -> Ok(library_from_homebrew(library, receipt))
      [] b \in {"system", "other"} -> library_from_apt(library, os, dp)
      [] OTHER -> Ok(Library(library, None))

\* One iteration of `for library in libraries`: the linkage after it, or the
\* error that `?` returns from determine_linkage
classify(lk, library, fsys, os, dp, receipt) ==
    LET b == bucket_of(library, fsys)
    IN  IF ~b.ok THEN Err(b.err)
        ELSE LET lib == library_for(b.val[1], library, os, dp, receipt)
             IN  IF ~lib.ok THEN Err(lib.err)
                 ELSE Ok(InsertInto(lk, b.val[1], lib.val[1]))

\* the commands and files one iteration touches
classify_spawns(library, fsys, os) ==
    LET b == bucket_of(library, fsys)
    IN  IF b.ok /\ b.val[1] \in {"system", "other"} THEN apt_spawns(os) ELSE {}

classify_reads(library, fsys, receipt) ==
    LET b == bucket_of(library, fsys)
    IN  IF b.ok /\ b.val[1] = "homebrew" /\ brew_prefix(library) # None /\ receipt.exists
        THEN {"receipt"} ELSE {}

\* the outcomes of dpkg and the receipts one iteration can meet: those of the
\* lookup its branch makes, a single one when it makes none
NoDpkg == [run |-> "spawn_failed", utf8 |-> TRUE, stdout |-> <<>>]
NoReceipt == [exists |-> FALSE, json |-> FALSE, tap |-> None]

DpkgAt(library, fsys, os) ==
    IF classify_spawns(library, fsys, os) = {} THEN {NoDpkg} ELSE DpkgOutcomes(library)

ReceiptsAt(library, fsys) ==
    LET b == bucket_of(library, fsys)
    IN  IF b.ok /\ b.val[1] = "homebrew" /\ brew_prefix(library) # None
        THEN Receipts ELSE {NoReceipt}

\* ---------------------------------------------------------------- targets
MachoTargets == {"i686-apple-darwin", "x86_64-apple-darwin", "aarch64-apple-darwin"}
ElfTargets ==
    { "i686-unknown-linux-gnu", "x86_64-unknown-linux-gnu", "aarch64-unknown-linux-gnu",
      "i686-unknown-linux-musl", "x86_64-unknown-linux-musl",
      "aarch64-unknown-linux-musl" }
PeTargets == {"i686-pc-windows-msvc", "x86_64-pc-windows-msvc", "aarch64-pc-windows-msvc"}

\* (mutant) any triple of a Linux environment takes the Linux arm
target_family_any_linux(target) ==
    IF target \in MachoTargets THEN "macho"
    ELSE IF target \in ElfTargets \/ target = "riscv64gc-unknown-linux-gnu" THEN "elf"
    ELSE IF target \in PeTargets THEN "pe"
    ELSE "unsupported"

\* the arm of `match target` (linkage.rs:356-379)
target_family(target) ==
    IF target \in MachoTargets THEN "macho"
    ELSE IF target \in ElfTargets THEN "elf"
    ELSE IF target \in PeTargets THEN "pe"
    ELSE "unsupported"

\* triples the match does not name
OtherTargets == {"wasm32-wasi", "riscv64gc-unknown-linux-gnu"}
AllTargets == MachoTargets \cup ElfTargets \cup PeTargets \cup OtherTargets
HostOSes == {"linux", "macos"}

\* (mutant) the host check left out
host_can_ldd_anywhere(os) == TRUE

\* the host check of the Linux arm (linkage.rs:366)
host_can_ldd(os) == os = "linux"

\* ---------------------------------------------------------------- inspectors
\* mach_object::LoadCommand variants that name a dylib (linkage.rs:285-290)
DylibCommands ==
    { "IdDyLib", "LoadDyLib", "LoadWeakDyLib", "ReexportDyLib", "LoadUpwardDylib",
      "LazyLoadDylib" }

\* the name of every element of a sequence of records with a name
Names(cmds) == [i \in 1..Len(cmds) |-> cmds[i].name]

\* do_otool on a file: open fails, or the dylib names of a Mach-O file, or
\* nothing for a file that is no MachFile
do_otool(file) ==
    IF ~file.readable THEN Err("Io")
    ELSE IF file.format = "macho"
    THEN Ok(Names(SelectSeq(file.commands, LAMBDA c : c.cmd \in DylibCommands)))
    ELSE Ok(<<>>)

\* do_pe on a file: read fails, goblin fails to parse, or the imports of a PE
\* file, or LinkageCheckUnsupportedBinary for any other object
do_pe(file) ==
    IF ~file.readable THEN Err("Io")
    ELSE IF file.format = "invalid" THEN Err("Goblin")
    ELSE IF file.format = "pe" THEN Ok(file.imports)
    ELSE Err("LinkageCheckUnsupportedBinary")

Whitespace == {"sp", "tab", "nl"}

\* str::trim_end and str::trim
RECURSIVE TrimEnd(_)
TrimEnd(s) ==
    IF s # <<>> /\ s[Len(s)] \in Whitespace THEN TrimEnd(SubSeq(s, 1, Len(s) - 1)) ELSE s

RECURSIVE TrimStart(_)
TrimStart(s) == IF s # <<>> /\ Head(s) \in Whitespace THEN TrimStart(Tail(s)) ELSE s

Trim(s) == TrimStart(TrimEnd(s))

NOT_DYNAMIC == <<"not", "sp", "a dynamic executable">>
STATICALLY_LINKED == <<"statically linked">>
LINUX_VDSO == <<"linux-vdso">>
ARROW == " => "

\* (mutant) only "not a dynamic executable" stops the loop
ldd_stops_notdyn_only(line) == StartsWith(line, NOT_DYNAMIC)

\* whether the loop over the lines stops at (trimmed) line
ldd_stops(line) == StartsWith(line, NOT_DYNAMIC) \/ StartsWith(line, STATICALLY_LINKED)

\* the loop `for line in lines` of do_ldd (linkage.rs:316-341), from line i on
RECURSIVE ldd_loop(_, _, _, _)
ldd_loop(lines, i, fsys, acc) ==
    IF i > Len(lines) THEN Ok(acc)
    ELSE LET line == Trim(lines[i])
             parts == Split(line, ARROW)
         IN  IF ldd_stops(line) THEN Ok(acc)
             ELSE IF StartsWith(line, LINUX_VDSO) THEN ldd_loop(lines, i + 1, fsys, acc)
             ELSE IF Len(parts) >= 2
             THEN LET lib == Head(Split(parts[2], "sp"))
                      realpath == canonicalize(fsys, lib)
                  IN  IF ~realpath.ok THEN Err(realpath.err)
                      ELSE ldd_loop(lines, i + 1, fsys, Append(acc, realpath.val[1]))
             ELSE ldd_loop(lines, i + 1, fsys, acc)

\* do_ldd when running ldd does `run`: the command could not be started, or
\* its stdout is parsed whatever its exit status
do_ldd(run, fsys) ==
    IF ~run.started THEN Err("Cmd")
    ELSE ldd_loop(Split(TrimEnd(run.stdout), "nl"), 1, fsys, <<>>)

\* ---------------------------------------------------------------- inputs
\* load commands of the Mach-O files of the model
MachoCommands == [cmd : {"LoadDyLib", "Segment64"}, name : RawPaths]

\* The files a direct call of determine_linkage may be pointed at.
Binaries ==
    { [readable |-> FALSE, format |-> "unknown", commands |-> <<>>, imports |-> <<>>],
      [readable |-> TRUE, format |-> "unknown", commands |-> <<>>, imports |-> <<>>],
      [readable |-> TRUE, format |-> "invalid", commands |-> <<>>, imports |-> <<>>],
      [readable |-> TRUE, format |-> "elf", commands |-> <<>>, imports |-> <<>>] }
    \cup { [readable |-> TRUE, format |-> "macho", commands |-> c, imports |-> <<>>] :
             c \in SeqsUpTo(MachoCommands, MaxLibs) }
    \cup { [readable |-> TRUE, format |-> "pe", commands |-> <<>>, imports |-> i] :
             i \in SeqsUpTo(PeImports, MaxLibs) }

\* lines ldd prints (`lines` of a run records the lines its stdout holds)
L_static == <<"tab", "statically linked">>
L_notdyn == <<"tab", "not", "sp", "a dynamic executable">>
L_vdso == <<"tab", "linux-vdso", ".so.1", ARROW, "sp", "(0x7ffc)">>
L_libm == <<"tab", "lib", "m.so.6", ARROW>> \o P_libm \o <<"sp", "(0x7f01)">>
L_libc == <<"tab", "lib", "c.so.6", ARROW>> \o P_lib64 \o <<"sp", "(0x7f02)">>
L_interp == <<"tab", "/", "lib", "64", "/", "ld-linux.so.2", "sp", "(0x7f03)">>
L_notfound == <<"tab", "lib", "gone.so", ARROW, "not", "sp", "found">>
LddLines == {L_static, L_notdyn, L_vdso, L_libm, L_libc, L_interp, L_notfound}

\* stdout holding the given lines
RECURSIVE StdoutOf(_)
StdoutOf(lines) == IF lines = <<>> THEN <<>> ELSE Head(lines) \o <<"nl">> \o StdoutOf(Tail(lines))

LddRuns ==
    { [started |-> FALSE, status |-> 1, lines |-> <<>>, stdout |-> <<>>] }
    \cup { [started |-> TRUE, status |-> st, lines |-> ls, stdout |-> StdoutOf(ls)] :
             st \in {0, 1}, ls \in SeqsUpTo(LddLines, MaxLines) }

\* ---------------------------------------------------------------- the dist directory
A_app ==
    [ id |-> "app",
      target_triples |-> {"x86_64-apple-darwin", "x86_64-unknown-linux-gnu"},
      required_binaries |-> <<"app", "helper">> ]
A_tool ==
    [ id |-> "tool",
      target_triples |-> {"x86_64-pc-windows-msvc", "x86_64-apple-darwin", "wasm32-wasi"},
      required_binaries |-> <<"tool.exe">> ]
ArtifactLists == { <<A_app, A_tool>>, <<A_tool, A_app>>, <<A_tool>> }

BatchTargets ==
    { "x86_64-apple-darwin", "x86_64-unknown-linux-gnu", "x86_64-pc-windows-msvc",
      "wasm32-wasi", "riscv64gc-unknown-linux-gnu" }

\* Utf8PathBuf::from(&dist_dir).join(format!("{}-{target}", artifact.id)).join(binary)
bin_path(target, artifact, binary) ==
    [dir |-> <<"dist", "/", artifact.id, "-", target>>, file |-> binary]

\* the path of a direct call
DirectPath == [dir |-> <<"target", "/", "release">>, file |-> "app"]

AbsentSets ==
    { {},
      {bin_path("x86_64-apple-darwin", A_app, "helper")},
      {bin_path("x86_64-pc-windows-msvc", A_tool, "tool.exe"),
       bin_path("x86_64-unknown-linux-gnu", A_app, "app")} }

\* what the binaries of the dist directory hold, and what ldd prints for them
DistFile(file) ==
    CASE file = "app" ->
           [readable |-> TRUE, format |-> "macho", imports |-> <<>>,
            commands |-> << [cmd |-> "LoadDyLib", name |-> P_foundation] >>]
      [] file = "helper" ->
           [readable |-> TRUE, format |-> "macho", imports |-> <<>>,
            commands |-> << [cmd |-> "LoadDyLib", name |-> P_mylib] >>]
      [] OTHER ->
           [readable |-> TRUE, format |-> "pe", commands |-> <<>>,
            imports |-> <<P_kernel32>>]

LddRun(status, lines) ==
    [started |-> TRUE, status |-> status, lines |-> lines, stdout |-> StdoutOf(lines)]

DistLdd(file) ==
    CASE file = "app" -> LddRun(0, <<L_vdso, L_libm>>)
      [] file = "helper" -> LddRun(1, <<L_static>>)
      [] OTHER -> LddRun(1, <<L_notdyn>>)

\* the files, and the runs of ldd, that a call on `path` can meet
FilesAt(path) == IF path = DirectPath THEN Binaries ELSE {DistFile(path.file)}
LddRunsAt(path) == IF path = DirectPath THEN LddRuns ELSE {DistLdd(path.file)}

\* ---------------------------------------------------------------- determine_linkage
NoPath == [dir |-> <<>>, file |-> ""]
NoLinkage == <<>>

\* (mutant) the loop is left with `break`, and what was classified returned
fail_partial(e, lk) == Ok(lk)

\* what determine_linkage returns when `?` meets error e in the loop, the
\* local linkage being lk (linkage.rs:396, 402, 412)
fail(e, lk) == Err(e)

callVars == <<callPath, callTarget>>
envVars == <<hostOS, fs, caller, targets, artifacts, absent>>
batchVars == <<ti, ai, bi, reports, batchRet>>

\* `_ => return Err(DistError::LinkageCheckUnsupportedBinary {})` (linkage.rs:378)
Unsupported ==
    /\ pc = "call"
    /\ target_family(callTarget) = "unsupported"
    /\ ret' = Some(Err("LinkageCheckUnsupportedBinary"))
    /\ pc' = "returned"
    /\ UNCHANGED <<envVars, batchVars, callVars, libraries, raw, linkage, spawned, reads,
                   lddOut, receipts>>

\* the Linux arm on a host that is not Linux (linkage.rs:366-371)
WrongHost ==
    /\ pc = "call"
    /\ target_family(callTarget) = "elf"
    /\ ~host_can_ldd(hostOS)
    /\ ret' = Some(Err("LinkageCheckInvalidOS"))
    /\ pc' = "returned"
    /\ UNCHANGED <<envVars, batchVars, callVars, libraries, raw, linkage, spawned, reads,
                   lddOut, receipts>>

\* `let libraries = match target { ... }?` and `let mut linkage = ...`
\* (linkage.rs:356-389), the inspector having returned res
Inspected(res) ==
    IF res.ok
    THEN /\ libraries' = res.val[1]
         /\ raw' = res.val[1]
         /\ linkage' = EmptyLinkage(callPath, callTarget)
         /\ pc' = "classify"
         /\ ret' = ret
    ELSE /\ ret' = Some(Err(res.err))
         /\ pc' = "returned"
         /\ UNCHANGED <<libraries, raw, linkage>>

DoOtool ==
    /\ pc = "call"
    /\ target_family(callTarget) = "macho"
    /\ \E file \in FilesAt(callPath) : Inspected(do_otool(file))
    /\ reads' = reads \cup {"binary"}
    /\ UNCHANGED <<envVars, batchVars, callVars, spawned, lddOut, receipts>>

DoLdd ==
    /\ pc = "call"
    /\ target_family(callTarget) = "elf"
    /\ host_can_ldd(hostOS)
    /\ \E run \in LddRunsAt(callPath) :
         /\ Inspected(do_ldd(run, fs))
         /\ lddOut' = Some(run)
    /\ spawned' = spawned \cup {"ldd"}
    /\ UNCHANGED <<envVars, batchVars, callVars, reads, receipts>>

DoPe ==
    /\ pc = "call"
    /\ target_family(callTarget) = "pe"
    /\ \E file \in FilesAt(callPath) : Inspected(do_pe(file))
    /\ reads' = reads \cup {"binary"}
    /\ UNCHANGED <<envVars, batchVars, callVars, spawned, lddOut, receipts>>

\* one iteration of `for library in libraries` (linkage.rs:390-414)
Classify ==
    /\ pc = "classify"
    /\ libraries # <<>>
    /\ LET library == Head(libraries)
       IN  \E dp \in DpkgAt(library, fs, hostOS), receipt \in ReceiptsAt(library, fs) :
             LET r == classify(linkage, library, fs, hostOS, dp, receipt)
             IN  /\ spawned' = spawned \cup classify_spawns(library, fs, hostOS)
                 /\ reads' = reads \cup classify_reads(library, fs, receipt)
                 /\ receipts' = receipts \cup
                        (IF ReceiptsAt(library, fs) = {NoReceipt} THEN {}
                         ELSE {[path |-> library, receipt |-> receipt]})
                 /\ IF r.ok
                    THEN /\ linkage' = r.val[1]
                         /\ libraries' = Tail(libraries)
                         /\ UNCHANGED <<pc, ret>>
                    ELSE /\ ret' = Some(fail(r.err, linkage))
                         /\ pc' = "returned"
                         /\ UNCHANGED <<linkage, libraries>>
    /\ UNCHANGED <<envVars, batchVars, callVars, raw, lddOut>>

\* `Ok(linkage)` (linkage.rs:416)
Return ==
    /\ pc = "classify"
    /\ libraries = <<>>
    /\ ret' = Some(Ok(linkage))
    /\ pc' = "returned"
    /\ UNCHANGED <<envVars, batchVars, callVars, libraries, raw, linkage, spawned, reads,
                   lddOut, receipts>>

\* ---------------------------------------------------------------- fetch_linkage
\* (mutant) the artifacts are not filtered by target
matching_unfiltered(arts, target) == arts

\* artifacts.clone().into_iter().filter(|r| r.target_triples.contains(&target))
matching(arts, target) == SelectSeq(arts, LAMBDA r : target \in r.target_triples)

\* what fetch_linkage returns when determine_linkage(..)? meets error e, the
\* reports so far being rs (linkage.rs:96)
batch_fail(e, rs) == Err(e)

inBatch == caller = "fetch_linkage"
callLocals ==
    <<callPath, callTarget, libraries, raw, linkage, ret, spawned, reads, lddOut, receipts>>

\* the loop over targets is over: `Ok(reports)` (linkage.rs:102)
Finish ==
    /\ inBatch /\ pc = "target"
    /\ ti > Len(targets)
    /\ batchRet' = Some(Ok(reports))
    /\ pc' = "done"
    /\ UNCHANGED <<envVars, callLocals, ti, ai, bi, reports>>

\* `if artifacts.is_empty() { eprintln!(..); continue; }` (linkage.rs:83-86)
NoArtifact ==
    /\ inBatch /\ pc = "target"
    /\ ti <= Len(targets)
    /\ matching(artifacts, targets[ti]) = <<>>
    /\ ti' = ti + 1
    /\ UNCHANGED <<envVars, callLocals, pc, ai, bi, reports, batchRet>>

\* `for artifact in artifacts` begins (linkage.rs:88)
EnterTarget ==
    /\ inBatch /\ pc = "target"
    /\ ti <= Len(targets)
    /\ matching(artifacts, targets[ti]) # <<>>
    /\ ai' = 1 /\ bi' = 1
    /\ pc' = "binary"
    /\ UNCHANGED <<envVars, callLocals, ti, reports, batchRet>>

\* the artifacts of this target are done: next target
LeaveTarget ==
    /\ inBatch /\ pc = "binary"
    /\ ai > Len(matching(artifacts, targets[ti]))
    /\ ti' = ti + 1
    /\ pc' = "target"
    /\ UNCHANGED <<envVars, callLocals, ai, bi, reports, batchRet>>

\* the binaries of this artifact are done: next artifact
NextArtifact ==
    /\ inBatch /\ pc = "binary"
    /\ ai <= Len(matching(artifacts, targets[ti]))
    /\ bi > Len(matching(artifacts, targets[ti])[ai].required_binaries)
    /\ ai' = ai + 1 /\ bi' = 1
    /\ UNCHANGED <<envVars, callLocals, pc, ti, reports, batchRet>>

\* the binary that the loops stand at
current_binary ==
    LET artifact == matching(artifacts, targets[ti])[ai]
    IN  bin_path(targets[ti], artifact, artifact.required_binaries[bi])

atBinary ==
    /\ inBatch /\ pc = "binary"
    /\ ai <= Len(matching(artifacts, targets[ti]))
    /\ bi <= Len(matching(artifacts, targets[ti])[ai].required_binaries)

\* `if !bin_path.exists() { eprintln!(..) }` (linkage.rs:93-94)
MissingBinary ==
    /\ atBinary
    /\ current_binary \in absent
    /\ bi' = bi + 1
    /\ UNCHANGED <<envVars, callLocals, pc, ti, ai, reports, batchRet>>

\* `determine_linkage(&bin_path, &target)` is called (linkage.rs:96)
CallDetermine ==
    /\ atBinary
    /\ current_binary \notin absent
    /\ callPath' = current_binary
    /\ callTarget' = targets[ti]
    /\ libraries' = <<>> /\ raw' = <<>> /\ linkage' = NoLinkage
    /\ ret' = None /\ spawned' = {} /\ reads' = {}
    /\ lddOut' = None /\ receipts' = {}
    /\ pc' = "call"
    /\ UNCHANGED <<envVars, batchVars>>

\* `reports.push(..)` of a call that returned Ok (linkage.rs:96)
Push ==
    /\ inBatch /\ pc = "returned"
    /\ ret[1].ok
    /\ reports' = Append(reports, ret[1].val[1])
    /\ bi' = bi + 1
    /\ pc' = "binary"
    /\ UNCHANGED <<envVars, callLocals, ti, ai, batchRet>>

\* `?` on a call that returned Err (linkage.rs:96)
Abort ==
    /\ inBatch /\ pc = "returned"
    /\ ~ret[1].ok
    /\ batchRet' = Some(batch_fail(ret[1].err, reports))
    /\ pc' = "done"
    /\ UNCHANGED <<envVars, callLocals, ti, ai, bi, reports>>

\* ---------------------------------------------------------------- specification
InitEnv ==
    /\ hostOS \in HostOSes
    /\ fs \in FileSystems
    /\ ti = 1 /\ ai = 1 /\ bi = 1
    /\ reports = <<>> /\ batchRet = None
    /\ libraries = <<>> /\ raw = <<>> /\ linkage = NoLinkage
    /\ ret = None /\ spawned = {} /\ reads = {}
    /\ lddOut = None /\ receipts = {}

\* a call of determine_linkage(path, target)
InitDirect ==
    /\ InitEnv
    /\ caller = "direct"
    /\ targets = <<>> /\ artifacts = <<>> /\ absent = {}
    /\ callPath = DirectPath
    /\ callTarget \in AllTargets
    /\ pc = "call"

\* a call of fetch_linkage(targets, artifacts, dist_dir)
InitBatch ==
    /\ InitEnv
    /\ caller = "fetch_linkage"
    /\ targets \in SeqsUpTo(BatchTargets, MaxTargets)
    /\ artifacts \in ArtifactLists
    /\ absent \in AbsentSets
    /\ callPath = NoPath
    /\ callTarget = ""
    /\ pc = "target"

Init == InitDirect \/ InitBatch

Next ==
    \/ Unsupported \/ WrongHost \/ DoOtool \/ DoLdd \/ DoPe \/ Classify \/ Return
    \/ Finish \/ NoArtifact \/ EnterTarget \/ LeaveTarget \/ NextArtifact
    \/ MissingBinary \/ CallDetermine \/ Push \/ Abort

Spec == Init /\ [][Next]_vars

\* ---------------------------------------------------------------- properties
\* a call of determine_linkage has returned Ok / Err
ReturnedOk == pc = "returned" /\ ret # None /\ ret[1].ok
ReturnedErr == pc = "returned" /\ ret # None /\ ~ret[1].ok

\* the Linkage a successful call returned
Returned == ret[1].val[1]

\* bucket b of linkage lk holds a Library of path p
Holds(lk, b, p) == \E l \in lk[b] : l.path = p

BucketsOf(lk, p) == {b \in Buckets : Holds(lk, b, p)}

\* C1: after a successful determine_linkage, every raw library path of the
\* inspector is the path of a Library in exactly one of the five sets of the
\* returned Linkage, and every Library of the five sets has a path of the raw
\* list.
C1_ExactlyOneBucket ==
    ReturnedOk =>
        /\ \A i \in 1..Len(raw) : Cardinality(BucketsOf(Returned, raw[i])) = 1
        /\ \A b \in Buckets : \A l \in Returned[b] : \E i \in 1..Len(raw) : raw[i] = l.path

\* a successful call whose binary links to two libraries of different buckets
C1_Witness ==
    /\ ReturnedOk
    /\ Len(raw) = 2
    /\ BucketsOf(Returned, raw[1]) # BucketsOf(Returned, raw[2])
    /\ BucketsOf(Returned, raw[1]) # {}

\* "begins under" a directory: whole path components
Under(p, dir) == PathStartsWith(p, dir)

\* The bucket of C2 as stated, every prefix read as a directory that the
\* path lies under (fsys resolves the path in rule 4).
StatedBucket(p, fsys) ==
    IF Under(p, OPT_HOMEBREW) THEN "homebrew"
    ELSE IF Under(p, USR_LIB) \/ Under(p, LIB) THEN "system"
    ELSE IF Under(p, SYSTEM_FRAMEWORKS) \/ Under(p, LIBRARY_FRAMEWORKS) THEN "frameworks"
    ELSE IF Under(p, USR_LOCAL)
    THEN IF /\ canonicalize(fsys, p).ok
            /\ Under(canonicalize(fsys, p).val[1], USR_LOCAL_CELLAR)
         THEN "homebrew" ELSE "public_unmanaged"
    ELSE "other"

\* C2 as stated: the bucket of every raw path is the one of the first rule
\* whose directory the literal path begins under.
C2_AsStated ==
    ReturnedOk => \A i \in 1..Len(raw) : Holds(Returned, StatedBucket(raw[i], fs), raw[i])

\* The rules of C2 with rules 1 to 4 as tests of the literal path string
\* (the text of the path begins with the text of the prefix) and the Cellar
\* test of rule 4 as a test of whole components of the canonicalized path.
Rule1(p) == StartsWith(p, OPT_HOMEBREW)
Rule2(p) == StartsWith(p, USR_LIB) \/ StartsWith(p, LIB)
Rule3(p) == StartsWith(p, SYSTEM_FRAMEWORKS) \/ StartsWith(p, LIBRARY_FRAMEWORKS)
Rule4(p) == StartsWith(p, USR_LOCAL)

AmendedBucket(p, fsys) ==
    CASE Rule1(p) -> "homebrew"
      [] ~Rule1(p) /\ Rule2(p) -> "system"
      [] ~Rule1(p) /\ ~Rule2(p) /\ Rule3(p) -> "frameworks"
      [] ~Rule1(p) /\ ~Rule2(p) /\ ~Rule3(p) /\ Rule4(p) ->
           IF Under(canonicalize(fsys, p).val[1], USR_LOCAL_CELLAR)
           THEN "homebrew" ELSE "public_unmanaged"
      [] OTHER -> "other"

\* C2 (amended): the bucket of every raw path of a successful call is the one
\* of the first rule that matches, rules 1 to 4 matching when the literal
\* path string starts with the prefix string (so /usr/lib64/libc.so.6 is
\* system), and rule 4 choosing homebrew when the canonicalized path lies
\* under the directory /usr/local/Cellar, public_unmanaged otherwise.
C2_FirstMatchOnLiteralString ==
    ReturnedOk => \A i \in 1..Len(raw) : Holds(Returned, AmendedBucket(raw[i], fs), raw[i])

\* a successful call that classified /usr/lib64/libc.so.6, which is not under
\* /usr/lib, as system, and /usr/local/Cellarfoo/x.dylib as public_unmanaged
C2_Witness ==
    /\ ReturnedOk
    /\ raw = <<P_lib64, P_cellarfoo>>
    /\ Holds(Returned, "system", P_lib64)
    /\ Holds(Returned, "public_unmanaged", P_cellarfoo)

\* C3: a determine_linkage that fails with UnsupportedBinary during a batch
\* does not abort the batch: fetch_linkage never ends by returning that error
\* instead of the Linkages of the other binaries.
C3_UnsupportedBinaryKeepsBatch ==
    (inBatch /\ pc = "done") =>
        ~(~batchRet[1].ok /\ batchRet[1].err = "LinkageCheckUnsupportedBinary")

\* C4: no outcome of the advisory package lookup makes determine_linkage
\* return an error: a call never returns the error of reading dpkg's output.
C4_LookupNeverFailsCall == ReturnedErr => ret[1].err # "FromUtf8"

\* the (binary, target) of each Linkage of a list
Keys(rs) == [i \in 1..Len(rs) |-> <<rs[i].binary[1], rs[i].target[1]>>]

\* the required binaries of artifact a that exist for target t, in order
RECURSIVE KeysOfBinaries(_, _, _, _)
KeysOfBinaries(t, a, bins, gone) ==
    IF bins = <<>> THEN <<>>
    ELSE (IF bin_path(t, a, Head(bins)) \in gone THEN <<>> ELSE << <<Head(bins), t>> >>)
            \o KeysOfBinaries(t, a, Tail(bins), gone)

\* ... of the artifacts that declare t, in order
RECURSIVE KeysOfArtifacts(_, _, _)
KeysOfArtifacts(t, arts, gone) ==
    IF arts = <<>> THEN <<>>
    ELSE (IF t \in Head(arts).target_triples
          THEN KeysOfBinaries(t, Head(arts), Head(arts).required_binaries, gone)
          ELSE <<>>)
            \o KeysOfArtifacts(t, Tail(arts), gone)

\* ... of the targets, in order
RECURSIVE KeysOfTargets(_, _, _)
KeysOfTargets(ts, arts, gone) ==
    IF ts = <<>> THEN <<>>
    ELSE KeysOfArtifacts(Head(ts), arts, gone) \o KeysOfTargets(Tail(ts), arts, gone)

IsPrefix(s, t) == Len(s) <= Len(t) /\ SubSeq(t, 1, Len(s)) = s

\* C5: the reports of a batch are, in order of targets, then artifacts, then
\* binaries, one Linkage for each (target, artifact, binary) whose artifact
\* declares the target and whose file exists: always a prefix of that list,
\* the whole list when fetch_linkage returns Ok, and fetch_linkage returns
\* an error only when a determine_linkage did (never for a target without
\* artifact or a missing file).
C5_OnePerExistingBinary ==
    inBatch =>
        /\ IsPrefix(Keys(reports), KeysOfTargets(targets, artifacts, absent))
        /\ (pc = "done" /\ batchRet[1].ok) =>
              Keys(batchRet[1].val[1]) = KeysOfTargets(targets, artifacts, absent)
        /\ (pc = "done" /\ ~batchRet[1].ok) =>
              (ret # None /\ ~ret[1].ok /\ ret[1].err = batchRet[1].err)

\* a batch that returned Ok with two Linkages, having skipped a target that
\* no artifact declares and a binary whose file is missing
C5_Witness ==
    /\ inBatch /\ pc = "done" /\ batchRet[1].ok
    /\ targets = <<"riscv64gc-unknown-linux-gnu", "x86_64-apple-darwin">>
    /\ artifacts = <<A_tool, A_app>>
    /\ absent = {bin_path("x86_64-apple-darwin", A_app, "helper")}
    /\ Keys(batchRet[1].val[1]) =
          << <<"tool.exe", "x86_64-apple-darwin">>, <<"app", "x86_64-apple-darwin">> >>

\* the six Linux triples of C6
C6_LinuxTriples ==
    { "i686-unknown-linux-gnu", "x86_64-unknown-linux-gnu", "aarch64-unknown-linux-gnu",
      "i686-unknown-linux-musl", "x86_64-unknown-linux-musl",
      "aarch64-unknown-linux-musl" }

\* C6: a call for a Linux triple on a host that is not Linux never gets past
\* the dispatch, runs no external command, and returns LinkageCheckInvalidOS.
C6_WrongHostBeforeSpawn ==
    (pc \in {"call", "classify", "returned"} /\ callTarget \in C6_LinuxTriples
        /\ hostOS # "linux") =>
        /\ spawned = {}
        /\ pc # "classify"
        /\ pc = "returned" => ret = Some(Err("LinkageCheckInvalidOS"))

\* such a call has returned
C6_Witness ==
    /\ pc = "returned" /\ hostOS = "macos"
    /\ callTarget = "aarch64-unknown-linux-musl"
    /\ ret = Some(Err("LinkageCheckInvalidOS"))
    /\ spawned = {}

\* the fifteen triples of C7
C7_Recognized ==
    { "i686-apple-darwin", "x86_64-apple-darwin", "aarch64-apple-darwin",
      "i686-pc-windows-msvc", "x86_64-pc-windows-msvc", "aarch64-pc-windows-msvc" }
    \cup C6_LinuxTriples

\* C7: a call for any other triple reads no file, runs no command, builds no
\* Linkage and classifies nothing, and returns LinkageCheckUnsupportedBinary.
C7_UnknownTripleFailsAtOnce ==
    (pc \in {"call", "classify", "returned"} /\ callTarget \notin C7_Recognized) =>
        /\ reads = {} /\ spawned = {} /\ lddOut = None
        /\ linkage = NoLinkage /\ raw = <<>>
        /\ pc # "classify"
        /\ pc = "returned" => ret = Some(Err("LinkageCheckUnsupportedBinary"))

\* such a call has returned
C7_Witness ==
    /\ pc = "returned"
    /\ callTarget = "riscv64gc-unknown-linux-gnu"
    /\ ret = Some(Err("LinkageCheckUnsupportedBinary"))

\* the formula a Homebrew path names: the path component after .../opt
FormulaOf(p) == PathComponents(p)[5]

\* the source C8 states for formula f when its receipt is r
StatedSource(f, r) ==
    IF r.exists /\ r.json /\ r.tap # None /\ r.tap[1] # HOMEBREW_CORE
    THEN r.tap[1] \o <<"/">> \o f
    ELSE f

\* C8 as stated: every Library of the homebrew bucket has an owning formula.
C8_AsStated == ReturnedOk => \A l \in Returned.homebrew : l.source # None

\* C8 (amended): a Library of the homebrew bucket whose literal path starts
\* with /opt/homebrew/opt/ or /usr/local/opt/ has as source the first path
\* segment after that prefix, prefixed tap/ when the install receipt it met
\* records a source tap other than homebrew/core and bare otherwise (no
\* receipt, unreadable or unparsable receipt, no tap, tap homebrew/core);
\* every other Library of the homebrew bucket has no source.
C8_FormulaOnlyUnderOpt ==
    ReturnedOk =>
        \A l \in Returned.homebrew :
            IF StartsWith(l.path, OPT_HOMEBREW_OPT) \/ StartsWith(l.path, USR_LOCAL_OPT)
            THEN \E e \in receipts :
                    /\ e.path = l.path
                    /\ l.source = Some(StatedSource(FormulaOf(l.path), e.receipt))
            ELSE l.source = None

\* a successful call with /opt/homebrew/opt/openssl@3/lib/libssl.3.dylib,
\* no receipt, as openssl@3, and /opt/homebrew/lib/libfoo.dylib without source
C8_Witness ==
    /\ ReturnedOk
    /\ raw = <<P_openssl, P_brewlib>>
    /\ receipts = {[path |-> P_openssl, receipt |-> NoReceipt]}
    /\ Returned.homebrew =
          {Library(P_openssl, Some(<<"openssl@3">>)), Library(P_brewlib, None)}

\* the keys of the binaries that fetch_linkage has passed when it stands at
\* binary bi of artifact ai of target ti
KeysBefore ==
    LET t == targets[ti]
        arts == SelectSeq(artifacts, LAMBDA a : t \in a.target_triples)
    IN  KeysOfTargets(SubSeq(targets, 1, ti - 1), artifacts, absent)
            \o KeysOfArtifacts(t, SubSeq(arts, 1, ai - 1), absent)
            \o KeysOfBinaries(t, arts[ai], SubSeq(arts[ai].required_binaries, 1, bi - 1),
                              absent)

\* C9: a call that returns Ok returns a Linkage that holds every raw library
\* of the binary, a call that returns an error returns no Linkage, and
\* while a call of a batch runs, and when it has returned, the reports of
\* the batch are those of the binaries before it.
C9_AllOrNothing ==
    /\ pc = "returned" =>
          IF ret[1].ok
          THEN /\ libraries = <<>>
               /\ \A i \in 1..Len(raw) : BucketsOf(Returned, raw[i]) # {}
          ELSE ret[1].val = <<>>
    /\ (inBatch /\ pc \in {"call", "classify", "returned"}) => Keys(reports) = KeysBefore

\* a call that failed at its second library, the first being classified
C9_Witness ==
    /\ ReturnedErr
    /\ Len(raw) = 2 /\ Len(libraries) = 1
    /\ BucketsOf(linkage, raw[1]) # {}
    /\ ret[1].err = "Io"

\* the lines of ldd that say the binary has no dynamic linkage, and the
\* resolved path of the lines of the form `name => resolved-path (address)`
C10_StaticLines == {L_static, L_notdyn}
C10_Resolved == (L_libm :> P_libm) @@ (L_libc :> P_lib64) @@ (L_notfound :> <<"not">>)

\* the lines before the first static-indicating line
RECURSIVE C10_Before(_)
C10_Before(ls) ==
    IF ls = <<>> \/ Head(ls) \in C10_StaticLines THEN <<>>
    ELSE <<Head(ls)>> \o C10_Before(Tail(ls))

C10_Kept(ls) == SelectSeq(C10_Before(ls), LAMBDA l : l \in DOMAIN C10_Resolved)

\* C10: whatever the exit status of ldd, do_ldd returns, in order, the
\* canonicalized resolved path of every `name => path (address)` line before
\* the first static-indicating line, the linux-vdso line and lines without
\* ` => ` left out (when each of these paths resolves; else it fails).
C10_LddParse ==
    (pc \in {"classify", "returned"} /\ lddOut # None /\ lddOut[1].started) =>
        LET kept == C10_Kept(lddOut[1].lines)
        IN  IF \A i \in 1..Len(kept) : canonicalize(fs, C10_Resolved[kept[i]]).ok
            THEN /\ linkage # NoLinkage
                 /\ raw = [i \in 1..Len(kept) |->
                             canonicalize(fs, C10_Resolved[kept[i]]).val[1]]
            ELSE ReturnedErr /\ linkage = NoLinkage /\ ret[1].err = "Io"

\* ldd exited with a failure status, printed "statically linked" first, and
\* do_ldd returned the empty list
C10_Witness ==
    /\ pc = "classify"
    /\ lddOut = Some(LddRun(1, <<L_static, L_libm>>))
    /\ raw = <<>>
    /\ linkage # NoLinkage

====
